---- MODULE Spec2Model ----
(***************************************************************************)
(* Entity / World core of ecsy (src/src/PropTypes.js): entity component    *)
(* maps, deferred removal, query indexing, entity and component pools.     *)
(*                                                                         *)
(* Objects are numbers.  An Entity object is 1..entityPool.count, in the   *)
(* order the entity pool constructed it.  A component instance of a type   *)
(* is n > 0 for the n-th instance constructed by that type's pool, n < 0   *)
(* for an instance made by `new Component()` outside any pool, and 0 is    *)
(* JavaScript's undefined.  Every handler is an operator from a world      *)
(* record to a world record; the actions at the end apply one handler.     *)
(***************************************************************************)
EXTENDS Integers, Sequences, FiniteSets, TLC

\* ---------------------------------------------------------------- bounds
MaxEntities == 2    \* Entity objects the entity pool may construct
MaxSolo == 1        \* the same, for a client that keeps a single entity
MaxId == 2          \* cap on world.nextEntityId
MaxPoolCount == 1   \* instances one component pool may construct
MaxPending == 2     \* cap on the length of _componentTypesToRemove
MaxList == 1        \* cap on the entity removal queue and the free lists
MaxCounter == 1     \* cap on |_numSystemStateComponents|
MaxTime == 1        \* range of the clock read by execute()
MaxFields == 2      \* properties of a component schema

\* ----------------------------------------------------------- vocabulary
Ent == 1..MaxEntities

\* Two component classes; "S" declares isSystemStateComponent.
Types == {"A", "S"}

isSystemStateComponent(T) == T = "S"

\* The predicates systems may ask getQuery for, by key.
QueryKeys == {"A", "A-!S"}

Components(q) == {"A"}

NotComponents(q) == IF q = "A-!S" THEN {"S"} ELSE {}

\* ------------------------------------------------- JavaScript array ops
\* Array.prototype.indexOf: 0-based index of the first x, or -1.
indexOf(s, x) ==
  IF \E i \in 1..Len(s) : s[i] = x
  THEN (CHOOSE i \in 1..Len(s) : s[i] = x /\ \A j \in 1..(i - 1) : s[j] # x) - 1
  ELSE -1

\* Array.prototype.splice(index, 1): a negative index counts from the end.
splice(s, index) ==
  LET start == IF index < 0
               THEN (IF Len(s) + index < 0 THEN 0 ELSE Len(s) + index)
               ELSE index
  IN IF start >= Len(s) THEN s
     ELSE SubSeq(s, 1, start) \o SubSeq(s, start + 2, Len(s))

\* Array.prototype.pop: the array without its last element.
pop(s) == SubSeq(s, 1, Len(s) - 1)

\* ----------------------------------------------------------------- state
VARIABLES
  _id,                            \* entity._id (-1: object not constructed)
  _alive,                         \* entity._alive
  componentTypes,                 \* entity.componentTypes
  components,                     \* entity.components
  _componentsToRemove,            \* entity._componentsToRemove
  _componentTypesToRemove,        \* entity._componentTypesToRemove
  entityQueries,                  \* entity.queries
  _numSystemStateComponents,      \* entity._numSystemStateComponents
  entities,                       \* world.entities
  entitiesById,                   \* world.entitiesById
  nextEntityId,                   \* world.nextEntityId
  entitiesWithComponentsToRemove, \* world.entitiesWithComponentsToRemove
  entitiesToRemove,               \* world.entitiesToRemove
  worldComponentTypes,            \* keys of world.componentTypes
  componentPools,                 \* world.componentPools
  entityPool,                     \* world.entityPool
  queries,                        \* keys of world.queries, in insertion order
  queryEntities,                  \* query.entities of each query
  enabled,                        \* world.enabled
  lastTime,                       \* world.lastTime
  thrown                          \* the last call ended by throwing an Error

vars == << _id, _alive, componentTypes, components, _componentsToRemove,
           _componentTypesToRemove, entityQueries, _numSystemStateComponents,
           entities, entitiesById, nextEntityId, entitiesWithComponentsToRemove,
           entitiesToRemove, worldComponentTypes, componentPools, entityPool,
           queries, queryEntities, enabled, lastTime, thrown >>

\* The whole program state as one record, the argument of every handler; a
\* call starts with nothing thrown.
World ==
  [ _id |-> _id, _alive |-> _alive, componentTypes |-> componentTypes,
    components |-> components, _componentsToRemove |-> _componentsToRemove,
    _componentTypesToRemove |-> _componentTypesToRemove,
    entityQueries |-> entityQueries,
    _numSystemStateComponents |-> _numSystemStateComponents,
    entities |-> entities, entitiesById |-> entitiesById,
    nextEntityId |-> nextEntityId,
    entitiesWithComponentsToRemove |-> entitiesWithComponentsToRemove,
    entitiesToRemove |-> entitiesToRemove,
    worldComponentTypes |-> worldComponentTypes,
    componentPools |-> componentPools, entityPool |-> entityPool,
    queries |-> queries, queryEntities |-> queryEntities,
    enabled |-> enabled, lastTime |-> lastTime, thrown |-> FALSE ]

\* A pool that was never created (componentPools[name] === undefined).
NoPool == [exists |-> FALSE, count |-> 0, freeList |-> << >>]

\* new ObjectPool(baseObject): no initial size, so nothing constructed yet.
ObjectPool == [exists |-> TRUE, count |-> 0, freeList |-> << >>]

\* new World(): the state after construction.
Init ==
  /\ _id = [e \in Ent |-> -1]
  /\ _alive = [e \in Ent |-> FALSE]
  /\ componentTypes = [e \in Ent |-> << >>]
  /\ components = [e \in Ent |-> [T \in Types |-> 0]]
  /\ _componentsToRemove = [e \in Ent |-> [T \in Types |-> 0]]
  /\ _componentTypesToRemove = [e \in Ent |-> << >>]
  /\ entityQueries = [e \in Ent |-> << >>]
  /\ _numSystemStateComponents = [e \in Ent |-> 0]
  /\ entities = << >>
  /\ entitiesById = << >>
  /\ nextEntityId = 0
  /\ entitiesWithComponentsToRemove = << >>
  /\ entitiesToRemove = << >>
  /\ worldComponentTypes = {}
  /\ componentPools = [T \in Types |-> NoPool]
  /\ entityPool = ObjectPool
  /\ queries = << >>
  /\ queryEntities = [q \in QueryKeys |-> << >>]
  /\ enabled = TRUE
  /\ lastTime = 0
  /\ thrown = FALSE

\* ------------------------------------------------------- pooled allocator
\* ObjectPool's expansion policy: grow by about 20%, at least one instance.
expandSize(count) == ((count * 2 + 5) \div 10) + 1

\* ObjectPool.expand(n) of a component pool: n new instances, numbered on.
RECURSIVE expand(_, _)
expand(pool, n) ==
  IF n = 0 THEN pool
  ELSE expand([pool EXCEPT !.count = @ + 1,
                           !.freeList = Append(@, pool.count + 1)], n - 1)

\* ObjectPool.acquire() of the pool of type T: the world after it, and the
\* instance handed out (the last of the free list, expanded when empty).
acquireComponent(w, T) ==
  LET pool == w.componentPools[T]
      grown == IF Len(pool.freeList) <= 0
               THEN expand(pool, expandSize(pool.count)) ELSE pool
  IN [ world |-> [w EXCEPT !.componentPools[T] =
                      [grown EXCEPT !.freeList = pop(@)]],
       item |-> grown.freeList[Len(grown.freeList)] ]

\* Component.dispose(): give the instance back to the pool it came from; an
\* instance made outside a pool belongs to none and is left to the collector.
componentDispose(w, T, component) ==
  IF component > 0
  THEN [w EXCEPT !.componentPools[T].freeList = Append(@, component)]
  ELSE w

\* `new Component(props)`: an object distinct from every instance of the type
\* that some entity still refers to.
newComponent(w, T) ==
  LET used == {w.components[e][T] : e \in Ent}
                \cup {w._componentsToRemove[e][T] : e \in Ent}
  IN -(CHOOSE k \in 1..(2 * MaxEntities + 1) :
          /\ -k \notin used
          /\ \A j \in 1..(k - 1) : -j \in used)

\* pool.totalUsed()
totalUsed(pool) == pool.count - Len(pool.freeList)

\* entityPool.expand(n): n times baseObject.clone(), i.e. new Entity(world)
\* (which takes the next id) copied from the component-less base entity.
RECURSIVE expandEntities(_, _)
expandEntities(w, n) ==
  IF n = 0 THEN w
  ELSE LET e == w.entityPool.count + 1
       IN expandEntities(
            [w EXCEPT !._id[e] = w.nextEntityId,
                      !.nextEntityId = @ + 1,
                      !.componentTypes[e] = << >>,
                      !.components[e] = [T \in Types |-> 0],
                      !._componentsToRemove[e] = [T \in Types |-> 0],
                      !.entityQueries[e] = << >>,
                      !._componentTypesToRemove[e] = << >>,
                      !._alive[e] = FALSE,
                      !._numSystemStateComponents[e] = 0,
                      !.entityPool.count = @ + 1,
                      !.entityPool.freeList = Append(@, e)], n - 1)

\* entityPool.acquire()
acquireEntity(w) ==
  LET grown == IF Len(w.entityPool.freeList) <= 0
               THEN expandEntities(w, expandSize(w.entityPool.count)) ELSE w
  IN [ world |-> [grown EXCEPT !.entityPool.freeList = pop(@)],
       item |-> grown.entityPool.freeList[Len(grown.entityPool.freeList)] ]

\* entityPool.release(entity)
releaseEntity(w, e) == [w EXCEPT !.entityPool.freeList = Append(@, e)]

\* ----------------------------------------------------------------- Query
\* entity.hasComponent(Component)
hasComponent(w, e, T) == indexOf(w.componentTypes[e], T) # -1

\* entity.hasRemovedComponent(Component)
hasRemovedComponent(w, e, T) == indexOf(w._componentTypesToRemove[e], T) # -1

\* entity.getComponent(Component, includeRemoved)
getComponent(w, e, T, includeRemoved) ==
  IF w.components[e][T] = 0 /\ includeRemoved
  THEN w._componentsToRemove[e][T]
  ELSE w.components[e][T]

\* query.match(entity): all of Components, none of NotComponents.
match(w, q, e) ==
  /\ \A T \in Components(q) : hasComponent(w, e, T)
  /\ ~ \E T \in NotComponents(q) : hasComponent(w, e, T)

\* query.addEntity(entity)
queryAddEntity(w, q, e) ==
  [w EXCEPT !.entityQueries[e] = Append(@, q),
            !.queryEntities[q] = Append(@, e)]

\* query.removeEntity(entity)
queryRemoveEntity(w, q, e) ==
  LET index == indexOf(w.queryEntities[q], e)
  IN IF index # -1
     THEN [w EXCEPT !.queryEntities[q] = splice(@, index),
                    !.entityQueries[e] =
                       IF indexOf(@, q) # -1 THEN splice(@, indexOf(@, q)) ELSE @]
     ELSE w

\* new Query(Components, world): seeded by one scan of world.entities.
RECURSIVE newQuery(_, _, _)
newQuery(w, q, i) ==
  IF i > Len(w.entities) THEN w
  ELSE LET e == w.entities[i]
       IN newQuery(IF match(w, q, e) THEN queryAddEntity(w, q, e) ELSE w, q, i + 1)

\* world.getQuery(Components)
getQuery(w, q) ==
  IF indexOf(w.queries, q) = -1
  THEN newQuery([w EXCEPT !.queries = Append(@, q)], q, 1)
  ELSE w

\* ----------------------------------------------------- World: indexing
\* world.onComponentAdded(entity, Component): the loop over world.queries.
RECURSIVE onComponentAddedFrom(_, _, _, _)
onComponentAddedFrom(w, e, T, i) ==
  IF i > Len(w.queries) THEN w
  ELSE LET q == w.queries[i]
       IN IF T \in NotComponents(q) /\ indexOf(w.queryEntities[q], e) # -1
          THEN onComponentAddedFrom(queryRemoveEntity(w, q, e), e, T, i + 1)
          ELSE IF \/ T \notin Components(q)
                  \/ ~match(w, q, e)
                  \/ indexOf(w.queryEntities[q], e) # -1
               THEN onComponentAddedFrom(w, e, T, i + 1)
               ELSE onComponentAddedFrom(queryAddEntity(w, q, e), e, T, i + 1)

onComponentAdded(w, e, T) == onComponentAddedFrom(w, e, T, 1)

\* world.onRemoveComponent(entity, Component): the loop over world.queries.
RECURSIVE onRemoveComponentFrom(_, _, _, _)
onRemoveComponentFrom(w, e, T, i) ==
  IF i > Len(w.queries) THEN w
  ELSE LET q == w.queries[i]
       IN IF /\ T \in NotComponents(q)
             /\ indexOf(w.queryEntities[q], e) = -1
             /\ match(w, q, e)
          THEN onRemoveComponentFrom(queryAddEntity(w, q, e), e, T, i + 1)
          ELSE IF /\ T \in Components(q)
                  /\ indexOf(w.queryEntities[q], e) # -1
                  /\ ~match(w, q, e)
               THEN onRemoveComponentFrom(queryRemoveEntity(w, q, e), e, T, i + 1)
               ELSE onRemoveComponentFrom(w, e, T, i + 1)

\* onRemoveComponent dropping the last entity of every query's list, whichever
\* entity it was called for.
onRemoveComponentLast(w, e, T) ==
  [w EXCEPT !.queryEntities =
              [q \in QueryKeys |->
                 IF w.queryEntities[q] = << >> THEN << >>
                 ELSE SubSeq(w.queryEntities[q], 1, Len(w.queryEntities[q]) - 1)]]

onRemoveComponent(w, e, T) == onRemoveComponentFrom(w, e, T, 1)

\* world.queueComponentRemoval(entity)
queueComponentRemoval(w, e) ==
  IF indexOf(w.entitiesWithComponentsToRemove, e) = -1
  THEN [w EXCEPT !.entitiesWithComponentsToRemove = Append(@, e)]
  ELSE w

\* world.queueEntityDisposal(entity)
queueEntityDisposal(w, e) == [w EXCEPT !.entitiesToRemove = Append(@, e)]

\* world.onEntityDisposed(entity): looks the entity up by its current _id.
onEntityDisposed(w, e) ==
  IF w._id[e] \notin DOMAIN w.entitiesById THEN w
  ELSE LET index == indexOf(w.entities, e)
       IN [w EXCEPT !.entitiesById =
                       [k \in (DOMAIN @) \ {w._id[e]} |-> @[k]],
                    !.entities = IF index # -1 THEN splice(@, index) ELSE @]

\* ---------------------------------------------------------------- Entity
\* entity.attachComponent(component), component an instance of T.
attachComponent(w, e, T, component) ==
  IF indexOf(w.componentTypes[e], T) # -1 THEN w
  ELSE LET a == [w EXCEPT !.componentTypes[e] = Append(@, T),
                          !._numSystemStateComponents[e] =
                             IF isSystemStateComponent(T) THEN @ + 1 ELSE @,
                          !.components[e][T] = component]
       IN IF a._alive[e] THEN onComponentAdded(a, e, T) ELSE a

\* addComponent without its first line: the type is pushed and an instance
\* acquired even when the entity already has the type.
addComponentUnchecked(w, e, T) ==
  LET a == [w EXCEPT !.componentTypes[e] = Append(@, T),
                     !._numSystemStateComponents[e] =
                        IF isSystemStateComponent(T) THEN @ + 1 ELSE @]
      got == IF a.componentPools[T].exists
             THEN acquireComponent(a, T)
             ELSE [world |-> a, item |-> newComponent(a, T)]
      b == [got.world EXCEPT !.components[e][T] = got.item]
  IN IF b._alive[e] THEN onComponentAdded(b, e, T) ELSE b

\* entity.addComponent(Component, props)
addComponent(w, e, T) ==
  IF indexOf(w.componentTypes[e], T) # -1 THEN w
  ELSE LET a == [w EXCEPT !.componentTypes[e] = Append(@, T),
                          !._numSystemStateComponents[e] =
                             IF isSystemStateComponent(T) THEN @ + 1 ELSE @]
           got == IF a.componentPools[T].exists
                  THEN acquireComponent(a, T)
                  ELSE [world |-> a, item |-> newComponent(a, T)]
           b == [got.world EXCEPT !.components[e][T] = got.item]
       IN IF b._alive[e] THEN onComponentAdded(b, e, T) ELSE b

RECURSIVE removeComponent(_, _, _, _)
RECURSIVE removeAllComponentsFrom(_, _, _, _)
RECURSIVE dispose(_, _, _)

\* entity.removeComponent(Component, immediately)
removeComponent(w, e, T, immediately) ==
  LET component == w.components[e][T]
      w1 == IF w._componentsToRemove[e][T] = 0
            THEN LET a == [w EXCEPT
                             !.components[e][T] = 0,
                             !.componentTypes[e] = splice(@, indexOf(@, T))]
                 IN IF a._alive[e] THEN onRemoveComponent(a, e, T) ELSE a
            ELSE w
      w2 == IF immediately
            THEN LET b == IF component # 0
                          THEN componentDispose(w1, T, component) ELSE w1
                 IN IF b._componentsToRemove[e][T] # 0
                    THEN [b EXCEPT
                            !._componentsToRemove[e][T] = 0,
                            !._componentTypesToRemove[e] =
                               IF indexOf(@, T) # -1
                               THEN splice(@, indexOf(@, T)) ELSE @]
                    ELSE b
            ELSE IF w1._alive[e]
                 THEN queueComponentRemoval(
                        [w1 EXCEPT !._componentTypesToRemove[e] = Append(@, T),
                                   !._componentsToRemove[e][T] = component], e)
                 ELSE w1
  IN IF isSystemStateComponent(T)
     THEN LET c == [w2 EXCEPT !._numSystemStateComponents[e] = @ - 1]
          IN IF c._numSystemStateComponents[e] = 0 /\ ~c._alive[e]
             THEN dispose(c, e, FALSE)
             ELSE c
     ELSE w2

\* entity.removeAllComponents(immediately): j runs down over the live array.
removeAllComponentsFrom(w, e, j, immediately) ==
  IF j < 0 THEN w
  ELSE removeAllComponentsFrom(
         removeComponent(w, e, w.componentTypes[e][j + 1], immediately),
         e, j - 1, immediately)

removeAllComponents(w, e, immediately) ==
  removeAllComponentsFrom(w, e, Len(w.componentTypes[e]) - 1, immediately)

\* entity.dispose(immediately)
dispose(w, e, immediately) ==
  LET w1 == IF w._alive[e]
            THEN [removeAllComponents(w, e, immediately)
                    EXCEPT !.entityQueries[e] = << >>]
            ELSE w
      w2 == [w1 EXCEPT !._alive[e] = FALSE]
  IN IF immediately
     THEN releaseEntity(
            onEntityDisposed([w2 EXCEPT !._id[e] = w2.nextEntityId,
                                        !.nextEntityId = @ + 1], e), e)
     ELSE queueEntityDisposal(w2, e)

\* entity.processRemovedComponents()
RECURSIVE processRemovedComponents(_, _)
processRemovedComponents(w, e) ==
  IF Len(w._componentTypesToRemove[e]) > 0
  THEN LET T == w._componentTypesToRemove[e][Len(w._componentTypesToRemove[e])]
       IN processRemovedComponents(
            removeComponent([w EXCEPT !._componentTypesToRemove[e] = pop(@)],
                            e, T, TRUE), e)
  ELSE w

\* ------------------------------------------------------ World: registry
\* world.registerComponent(Component) for a class with a complete schema and
\* no objectPool argument: the type gets a default ObjectPool.
registerComponent(w, T) ==
  IF T \in w.worldComponentTypes THEN w
  ELSE [w EXCEPT !.worldComponentTypes = @ \cup {T},
                 !.componentPools[T] = ObjectPool]

\* One property of a schema: whether prop.type, prop.type.name,
\* prop.type.default, prop.type.clone and prop.type.copy are there.  A
\* property lacks at most one of them.
Props ==
  { f \in [ {"type", "name", "default", "clone", "copy"} -> BOOLEAN ] :
      Cardinality({ k \in DOMAIN f : ~f[k] }) <= 1 }

\* Component.schema: undefined, or an object of up to MaxFields properties in
\* their enumeration order.
Schemas ==
  { [defined |-> FALSE, props |-> << >>] }
    \cup { [defined |-> TRUE, props |-> ps] :
             ps \in UNION { [1..n -> Props] : n \in 0..MaxFields } }

\* registerComponent's loop over the schema from property i on: TRUE when it
\* throws.  A type without a name is only warned about.
RECURSIVE schemaThrows(_, _)
schemaThrows(schema, i) ==
  IF i > Len(schema.props) THEN FALSE
  ELSE LET prop == schema.props[i]
       IN IF ~prop["type"] THEN TRUE
          ELSE IF ~prop["default"] THEN TRUE
          ELSE IF ~prop["clone"] THEN TRUE
          ELSE IF ~prop["copy"] THEN TRUE
          ELSE schemaThrows(schema, i + 1)

\* registerComponent storing the type and its pool before it looks at the
\* schema.
registerComponentEager(w, T, schema) ==
  IF T \in w.worldComponentTypes THEN w
  ELSE [registerComponent(w, T) EXCEPT
          !.thrown = ~schema.defined \/ schemaThrows(schema, 1)]

\* world.registerComponent(Component) for a class with the given schema.
registerComponentSchema(w, T, schema) ==
  IF T \in w.worldComponentTypes THEN w
  ELSE IF ~schema.defined THEN [w EXCEPT !.thrown = TRUE]
  ELSE IF schemaThrows(schema, 1) THEN [w EXCEPT !.thrown = TRUE]
  ELSE registerComponent(w, T)

\* world.createDetachedEntity()
createDetachedEntity(w) == acquireEntity(w).world

\* addEntity without the test of entitiesById.
RECURSIVE addEntityFrom(_, _, _)
addEntityAgain(w, e) ==
  addEntityFrom([w EXCEPT !.entitiesById = (w._id[e] :> e) @@ @,
                          !.entities = Append(@, e),
                          !._alive[e] = TRUE], e, 1)

\* world.addEntity(entity): the loop over entity.componentTypes.
addEntityFrom(w, e, i) ==
  IF i > Len(w.componentTypes[e]) THEN w
  ELSE addEntityFrom(onComponentAdded(w, e, w.componentTypes[e][i]), e, i + 1)

addEntity(w, e) ==
  IF w._id[e] \in DOMAIN w.entitiesById THEN w
  ELSE addEntityFrom([w EXCEPT !.entitiesById = (w._id[e] :> e) @@ @,
                               !.entities = Append(@, e),
                               !._alive[e] = TRUE], e, 1)

\* world.createEntity()
createEntity(w) ==
  LET got == acquireEntity(w) IN addEntity(got.world, got.item)

\* world.processDeferredRemoval(): first loop, over entitiesToRemove.
RECURSIVE disposeQueued(_, _)
disposeQueued(w, i) ==
  IF i > Len(w.entitiesToRemove) THEN w
  ELSE disposeQueued(dispose(w, w.entitiesToRemove[i], TRUE), i + 1)

\* world.processDeferredRemoval(): second loop, over
\* entitiesWithComponentsToRemove.
RECURSIVE processQueued(_, _)
processQueued(w, i) ==
  IF i > Len(w.entitiesWithComponentsToRemove) THEN w
  ELSE processQueued(
         processRemovedComponents(w, w.entitiesWithComponentsToRemove[i]), i + 1)

\* world.processDeferredRemoval(); deferredRemovalEnabled is never cleared.
processDeferredRemoval(w) ==
  LET w1 == [disposeQueued(w, 1) EXCEPT !.entitiesToRemove = << >>]
  IN [processQueued(w1, 1) EXCEPT !.entitiesWithComponentsToRemove = << >>]

\* execute with the test of world.enabled left out.
executeAlways(w, delta, now) ==
  processDeferredRemoval(IF delta = 0 THEN [w EXCEPT !.lastTime = now] ELSE w)

\* world.execute(delta, time); `now` is what performance.now() returns when
\* it is read (delta = 0).  systemManager.execute() runs no system of its own.
execute(w, delta, now) ==
  LET w1 == IF delta = 0 THEN [w EXCEPT !.lastTime = now] ELSE w
  IN IF w1.enabled THEN processDeferredRemoval(w1) ELSE w1

\* world.stop()
stop(w) == [w EXCEPT !.enabled = FALSE]

\* world.play()
play(w) == [w EXCEPT !.enabled = TRUE]

\* ---------------------------------------------------------------- bounds
\* Ids a handler takes from nextEntityId must stay below the cap.
Bounded(w) ==
  /\ w.nextEntityId <= MaxId
  /\ w.entityPool.count <= MaxEntities
  /\ Len(w.entityPool.freeList) <= MaxList
  /\ Len(w.entitiesToRemove) <= MaxList
  /\ \A T \in Types :
       /\ w.componentPools[T].count <= MaxPoolCount
       /\ Len(w.componentPools[T].freeList) <= MaxList
  /\ \A e \in Ent :
       /\ Len(w._componentTypesToRemove[e]) <= MaxPending
       /\ w._numSystemStateComponents[e] <= MaxCounter
       /\ w._numSystemStateComponents[e] >= -MaxCounter

\* Room for one more acquire from the entity pool / a component pool.
CanAcquireEntity ==
  \/ Len(entityPool.freeList) > 0
  \/ entityPool.count + expandSize(entityPool.count) <= MaxEntities

\* Room for the ids one flush hands out.
CanFlush == nextEntityId + Len(entitiesToRemove) <= MaxId

\* Entity objects the program holds a reference to: constructed, and not
\* lying in the entity pool's free list.
Held == {e \in Ent : e <= entityPool.count /\ indexOf(entityPool.freeList, e) = -1}

Apply(w) ==
  /\ Bounded(w)
  /\ _id' = w._id
  /\ _alive' = w._alive
  /\ componentTypes' = w.componentTypes
  /\ components' = w.components
  /\ _componentsToRemove' = w._componentsToRemove
  /\ _componentTypesToRemove' = w._componentTypesToRemove
  /\ entityQueries' = w.entityQueries
  /\ _numSystemStateComponents' = w._numSystemStateComponents
  /\ entities' = w.entities
  /\ entitiesById' = w.entitiesById
  /\ nextEntityId' = w.nextEntityId
  /\ entitiesWithComponentsToRemove' = w.entitiesWithComponentsToRemove
  /\ entitiesToRemove' = w.entitiesToRemove
  /\ worldComponentTypes' = w.worldComponentTypes
  /\ componentPools' = w.componentPools
  /\ entityPool' = w.entityPool
  /\ queries' = w.queries
  /\ queryEntities' = w.queryEntities
  /\ enabled' = w.enabled
  /\ lastTime' = w.lastTime
  /\ thrown' = w.thrown

\* --------------------------------------------------------------- actions
RegisterComponent(T) == Apply(registerComponent(World, T))

GetQuery(q) == Apply(getQuery(World, q))

CreateEntity == CanAcquireEntity /\ Apply(createEntity(World))

AttachComponent(e, T) ==
  e \in Held /\ Apply(attachComponent(World, e, T, newComponent(World, T)))

AddComponent(e, T) ==
  /\ e \in Held
  /\ \/ ~componentPools[T].exists
     \/ Len(componentPools[T].freeList) > 0
     \/ componentPools[T].count + expandSize(componentPools[T].count) <= MaxPoolCount
  /\ Apply(addComponent(World, e, T))

RemoveComponent(e, T, immediately) ==
  e \in Held /\ Apply(removeComponent(World, e, T, immediately))

ProcessRemovedComponents(e) ==
  e \in Held /\ Apply(processRemovedComponents(World, e))

Dispose(e, immediately) ==
  /\ e \in Held
  /\ Apply(dispose(World, e, immediately))

\* world.execute(delta, time) with a delta: the clock is not read.  The
\* scheduler's systems act through the other actions.
ExecuteDelta == CanFlush /\ Apply(execute(World, 1, lastTime))

\* world.execute() without a delta: performance.now() is read first.
ExecuteClock ==
  \E now \in lastTime..MaxTime : CanFlush /\ Apply(execute(World, 0, now))

Stop == Apply(stop(World))

Play == Apply(play(World))

\* createEntity() by a client that makes do with MaxSolo Entity objects.
CreateSoloEntity ==
  /\ \/ Len(entityPool.freeList) > 0
     \/ entityPool.count + expandSize(entityPool.count) <= MaxSolo
  /\ Apply(createEntity(World))

\* ------------------------------------------------------- specifications
\* Every operation of the program.
Next ==
  \/ \E T \in Types : RegisterComponent(T)
  \/ \E q \in QueryKeys : GetQuery(q)
  \/ CreateEntity
  \/ \E e \in Ent, T \in Types : AttachComponent(e, T)
  \/ \E e \in Ent, T \in Types : AddComponent(e, T)
  \/ \E e \in Ent, T \in Types, immediately \in BOOLEAN :
        RemoveComponent(e, T, immediately)
  \/ \E e \in Ent : ProcessRemovedComponents(e)
  \/ \E e \in Ent, immediately \in BOOLEAN : Dispose(e, immediately)
  \/ ExecuteDelta
  \/ ExecuteClock
  \/ Stop
  \/ Play

Spec == Init /\ [][Next]_vars

\* One entity's components, pools and disposal, ticked by execute(delta);
\* no query is ever asked for.
NextComponents ==
  \/ \E T \in Types : RegisterComponent(T)
  \/ CreateSoloEntity
  \/ \E e \in Ent, T \in Types : AttachComponent(e, T)
  \/ \E e \in Ent, T \in Types : AddComponent(e, T)
  \/ \E e \in Ent, T \in Types, immediately \in BOOLEAN :
        RemoveComponent(e, T, immediately)
  \/ \E e \in Ent : ProcessRemovedComponents(e)
  \/ \E e \in Ent, immediately \in BOOLEAN : Dispose(e, immediately)
  \/ ExecuteDelta

SpecComponents == Init /\ [][NextComponents]_vars

\* One entity's components and the queries indexing it; nothing is disposed
\* and no tick runs.
NextQueries ==
  \/ \E T \in Types : RegisterComponent(T)
  \/ \E q \in QueryKeys : GetQuery(q)
  \/ CreateSoloEntity
  \/ \E e \in Ent, T \in Types : AttachComponent(e, T)
  \/ \E e \in Ent, T \in Types : AddComponent(e, T)
  \/ \E e \in Ent, T \in Types, immediately \in BOOLEAN :
        RemoveComponent(e, T, immediately)

SpecQueries == Init /\ [][NextQueries]_vars

\* One entity under a world that is stopped and played, ticked by execute().
NextTick ==
  \/ \E T \in Types : RegisterComponent(T)
  \/ CreateSoloEntity
  \/ \E e \in Ent, T \in Types : AddComponent(e, T)
  \/ \E e \in Ent, T \in Types, immediately \in BOOLEAN :
        RemoveComponent(e, T, immediately)
  \/ \E e \in Ent, immediately \in BOOLEAN : Dispose(e, immediately)
  \/ ExecuteClock
  \/ Stop
  \/ Play

SpecTick == Init /\ [][NextTick]_vars

\* Several live entities in the query [A, Not(S)], with deferred removal and
\* disposal only: what the systems of one tick do to the list they iterate.
NextIteration ==
  \/ GetQuery("A-!S")
  \/ CreateEntity
  \/ \E e \in Ent, T \in Types : _alive[e] /\ AddComponent(e, T)
  \/ \E e \in Ent, T \in Types : _alive[e] /\ RemoveComponent(e, T, FALSE)
  \/ \E e \in Ent : _alive[e] /\ Dispose(e, FALSE)

SpecIteration == Init /\ [][NextIteration]_vars

\* ------------------------------------------------------------------ C1
\* Entities that are registered and visible to queries.
Live == {e \in Held : _alive[e]}

\* C1: query correctness.  For every live entity E and registered query Q,
\* E is in Q.entities exactly when Q.match(E) holds, in every state reached
\* by attach, add and remove calls (also a remove of a type E does not hold).
C1_QueryCorrectness ==
  \A e \in Live : \A i \in 1..Len(queries) :
    (indexOf(queryEntities[queries[i]], e) # -1) <=> match(World, queries[i], e)

\* ------------------------------------------------------------------ C2
\* C2: deferred-removal visibility.  On a live entity holding instance c of
\* T, removeComponent(T) in deferred mode makes hasComponent(T) false while
\* getComponent(T, true) still returns c; that lasts (T not being added
\* again) until the pending removals are processed, by
\* processRemovedComponents() or by the tick's flush, after which
\* getComponent(T, true) is undefined and T is no longer pending.
C2_DeferredVisibility ==
  [][\A e \in Ent, T \in Types :
       LET c == components[e][T]
           p == _componentsToRemove[e][T]
           processing == \/ ProcessRemovedComponents(e)
                         \/ ExecuteDelta
                         \/ RemoveComponent(e, T, TRUE)
           hidden == p # 0 /\ ~hasComponent(World, e, T)
       IN /\ (e \in Live /\ c # 0 /\ RemoveComponent(e, T, FALSE))
               => /\ ~hasComponent(World', e, T)
                  /\ getComponent(World', e, T, TRUE) = c
          /\ (e \in Live /\ hidden /\ ~processing
                /\ ~AddComponent(e, T) /\ ~AttachComponent(e, T))
               => /\ ~hasComponent(World', e, T)
                  /\ getComponent(World', e, T, TRUE) = p
          /\ (e \in Live /\ hidden
                /\ (ProcessRemovedComponents(e) \/ ExecuteDelta))
               => /\ getComponent(World', e, T, TRUE) = 0
                  /\ ~hasRemovedComponent(World', e, T)
    ]_vars

\* ------------------------------------------------------------------ C3
\* C3: pool conservation.  An instance acquired from its type's pool goes
\* back to that pool when it is removed: at once by an immediate removal, and
\* for a deferred removal at the call or flush that drains the pending list.
C3_PoolConservation ==
  [][\A e \in Ent, T \in Types :
       LET c == components[e][T]
           p == _componentsToRemove[e][T]
       IN /\ (/\ e \in Held /\ c > 0 /\ hasComponent(World, e, T)
              /\ RemoveComponent(e, T, TRUE))
               => indexOf(componentPools'[T].freeList, c) # -1
          /\ (/\ e \in Held /\ p > 0 /\ hasRemovedComponent(World, e, T)
              /\ \/ ProcessRemovedComponents(e)
                 \/ (indexOf(entitiesWithComponentsToRemove, e) # -1
                       /\ ExecuteDelta))
               => indexOf(componentPools'[T].freeList, p) # -1
    ]_vars

\* ------------------------------------------------------------------ C4
\* The entity object is indexed by some id / lies in the entity pool.
Indexed(ById, e) == \E k \in DOMAIN ById : ById[k] = e

Pooled(pool, e) == indexOf(pool.freeList, e) # -1

\* C4: system-state gating.  A deferred dispose of a live entity that holds
\* one system-state component leaves it holding that component, indexed in
\* entitiesById and out of the entity pool; no flush returns a dead entity
\* with an outstanding system-state component to the pool; and removing the
\* last one from the dead entity triggers its disposal.
C4_SystemStateGating ==
  [][\A e \in Ent :
       /\ (/\ e \in Live /\ _numSystemStateComponents[e] = 1
           /\ hasComponent(World, e, "S") /\ Dispose(e, FALSE))
            => /\ _numSystemStateComponents'[e] = 1
               /\ Indexed(entitiesById', e)
               /\ ~Pooled(entityPool', e)
       /\ (/\ e \in Held /\ ~_alive[e] /\ _numSystemStateComponents[e] > 0
           /\ ExecuteDelta)
            => /\ Indexed(entitiesById', e)
               /\ ~Pooled(entityPool', e)
       /\ (/\ e \in Held /\ ~_alive[e] /\ _numSystemStateComponents[e] = 1
           /\ hasComponent(World, e, "S")
           /\ \E immediately \in BOOLEAN : RemoveComponent(e, "S", immediately))
            => \/ indexOf(entitiesToRemove', e) # -1
               \/ Pooled(entityPool', e)
    ]_vars

\* ------------------------------------------------------------------ C6
\* The entity object is out of world.entities and entitiesById, under a new
\* id, and back in the entity pool.
Gone(e) ==
  /\ indexOf(entities', e) = -1
  /\ ~Indexed(entitiesById', e)
  /\ _id'[e] # _id[e]
  /\ Pooled(entityPool', e)

\* C6: entity disposal completes.  A deferred dispose leaves the entity in
\* world.entities and entitiesById, not alive; dispose(true), and the flush
\* for every queued entity, take it out of both, give it a fresh id and
\* return it to the entity pool.
C6_DisposalCompletes ==
  [][\A e \in Ent :
       /\ (e \in Live /\ Dispose(e, FALSE))
            => /\ indexOf(entities', e) # -1
               /\ Indexed(entitiesById', e)
               /\ ~_alive'[e]
       /\ (e \in Held /\ Dispose(e, TRUE)) => Gone(e)
       /\ (indexOf(entitiesToRemove, e) # -1 /\ ExecuteDelta) => Gone(e)
    ]_vars

\* ------------------------------------------------------------------ C8
\* C8: the flush empties both queues.  When execute() returns on an enabled
\* world, entitiesToRemove and entitiesWithComponentsToRemove are empty.
C8_FlushEmptiesQueues ==
  [][(enabled /\ ExecuteDelta)
       => /\ entitiesToRemove' = << >>
          /\ entitiesWithComponentsToRemove' = << >>]_vars

\* ------------------------------------------------------------------ C5
\* The entity-side and world-side state a removal may touch.
removalState ==
  << componentTypes, components, _componentsToRemove, _componentTypesToRemove,
     _numSystemStateComponents, queryEntities, entitiesToRemove,
     entitiesWithComponentsToRemove >>

\* C5: removing what is absent is a no-op.  removeComponent(T), in either
\* mode, on an entity that does not hold T, and a second deferred
\* removeComponent(T) while T is pending, change nothing.
C5_RemoveAbsentNoOp ==
  [][\A e \in Ent, T \in Types, immediately \in BOOLEAN :
       (/\ e \in Held
        /\ \/ ~hasComponent(World, e, T)
           \/ ~immediately /\ hasRemovedComponent(World, e, T)
        /\ RemoveComponent(e, T, immediately))
         => UNCHANGED removalState
    ]_vars

\* ------------------------------------------------------------------ C7
\* C7: attach and add are idempotent.  attachComponent(instance) and
\* addComponent(Type) on an entity whose componentTypes already has the type
\* leave componentTypes, the stored instances, the system-state counter, the
\* pools and every query's membership as they were.
C7_IdempotentAttach ==
  \A e \in Held, T \in Types :
    hasComponent(World, e, T)
      => \A w \in { attachComponent(World, e, T, newComponent(World, T)),
                    addComponent(World, e, T) } :
           /\ w.componentTypes = componentTypes
           /\ w.components = components
           /\ w._numSystemStateComponents = _numSystemStateComponents
           /\ w.componentPools = componentPools
           /\ w.queryEntities = queryEntities
           /\ w.entityQueries = entityQueries

\* A live entity holds a pooled instance of a type and is listed in a query:
\* the state a repeated add or attach of that type is called in.
C7_Witness ==
  \E e \in Live, T \in Types :
    /\ hasComponent(World, e, T)
    /\ components[e][T] > 0
    /\ \E i \in 1..Len(queries) : indexOf(queryEntities[queries[i]], e) # -1

\* ------------------------------------------------------------------ C9
\* A deferred removal or disposal called on live entity e.
DeferredOn(e) ==
  /\ e \in Live
  /\ \/ \E T \in Types : RemoveComponent(e, T, FALSE)
     \/ Dispose(e, FALSE)

\* The sequence s without the entity e.
Without(s, e) == SelectSeq(s, LAMBDA x : x # e)

C10_DisabledTickSkipped ==
  [][/\ (lastTime' # lastTime /\ ~enabled)
          => UNCHANGED << _id, _alive, componentTypes, components,
                          _componentsToRemove, _componentTypesToRemove,
                          entityQueries, _numSystemStateComponents, entities,
                          entitiesById, nextEntityId,
                          entitiesWithComponentsToRemove, entitiesToRemove,
                          worldComponentTypes, componentPools, entityPool,
                          queries, queryEntities, enabled >>
     /\ \A e \in Ent, T \in Types :
          (/\ ~enabled /\ e \in Live
           /\ hasComponent(World, e, T) /\ _componentsToRemove[e][T] = 0
           /\ RemoveComponent(e, T, FALSE))
            => /\ ~hasComponent(World', e, T)
               /\ hasRemovedComponent(World', e, T)
               /\ indexOf(entitiesWithComponentsToRemove', e) # -1
     /\ (lastTime' # lastTime /\ enabled)
          => /\ entitiesWithComponentsToRemove' = << >>
             /\ \A e \in Ent : _componentTypesToRemove'[e] = << >>
    ]_vars

\* The world is stopped, its clock has been read by an execute(), and a
\* deferred removal is still queued.
C10_Witness ==
  /\ ~enabled
  /\ lastTime > 0
  /\ entitiesWithComponentsToRemove # << >>
  /\ \E e \in Ent : _componentTypesToRemove[e] # << >>

\* ----------------------------------------------------------------- C11
\* The Entity objects constructed so far.
Constructed == {e \in Ent : e <= entityPool.count}

\* C11: ids are one-shot.  Every id an entity receives is a value
\* nextEntityId never handed out before; two constructed Entity objects never
\* hold the same id; and the id an entity held before its physical disposal
\* no longer resolves through entitiesById.
C11_IdsOneShot ==
  [][/\ \A e \in Ent :
          _id'[e] # _id[e]
            => /\ _id'[e] >= nextEntityId
               /\ _id'[e] < nextEntityId'
               /\ \A o \in Ent \ {e} : _id'[o] # _id'[e]
     /\ \A e \in Held :
          Dispose(e, TRUE) => _id[e] \notin DOMAIN entitiesById'
    ]_vars

\* ----------------------------------------------------------------- C12
\* world.registerComponent(Component), whatever the schema of the class.
RegisterSchema(T, schema) == Apply(registerComponentSchema(World, T, schema))

\* world.createDetachedEntity()
CreateDetachedEntity == CanAcquireEntity /\ Apply(createDetachedEntity(World))

\* world.addEntity(entity) with an entity the caller holds.
AddEntity(e) == e \in Held /\ Apply(addEntity(World, e))

\* Registration of types with any schema, and entities added by hand.
NextRegistry ==
  \/ \E T \in Types, schema \in Schemas : RegisterSchema(T, schema)
  \/ CreateDetachedEntity
  \/ \E e \in Ent : AddEntity(e)
  \/ \E e \in Ent, T \in Types : AddComponent(e, T)
  \/ GetQuery("A")

SpecRegistry == Init /\ [][NextRegistry]_vars

\* The schema has no property table, or a property without a type, a
\* default, a clone or a copy.
Invalid(schema) ==
  \/ ~schema.defined
  \/ \E i \in 1..Len(schema.props) :
       \E k \in {"type", "default", "clone", "copy"} : ~schema.props[i][k]

\* C12: an invalid schema is rejected atomically.  registerComponent of a
\* type not yet registered whose schema is missing, or has a property lacking
\* a type, a default, a clone or a copy at any position, throws and leaves
\* the registered types and the pools as they were; componentCounts gets its
\* key in the same two statements as componentTypes.
C12_InvalidSchemaRejected ==
  \A T \in Types \ worldComponentTypes, schema \in Schemas :
    Invalid(schema)
      => LET w == registerComponentSchema(World, T, schema)
         IN /\ w.thrown
            /\ w = [World EXCEPT !.thrown = TRUE]

\* A rejected registration has happened in a world that has another type
\* registered with its pool, and the rejected type is still unregistered.
C12_Witness ==
  /\ thrown
  /\ worldComponentTypes # {}
  /\ \E T \in Types : T \notin worldComponentTypes /\ ~componentPools[T].exists

\* ----------------------------------------------------------------- C13
\* C13: redundant operations are no-ops.  registerComponent of a type name
\* already registered (whatever schema the class has) and addEntity of an
\* entity whose id is a key of entitiesById throw nothing and leave the whole
\* state as it is: registration and pool kept, world.entities not grown, no
\* query touched.
C13_RedundantNoOp ==
  /\ \A T \in worldComponentTypes, schema \in Schemas :
       registerComponentSchema(World, T, schema) = World
  /\ \A e \in Held :
       _id[e] \in DOMAIN entitiesById => addEntity(World, e) = World

\* A type is registered and its pool has an instance out, held by a live
\* entity that is indexed by id and listed in a query.
C13_Witness ==
  \E e \in Live, T \in worldComponentTypes :
    /\ components[e][T] > 0
    /\ _id[e] \in DOMAIN entitiesById
    /\ \E i \in 1..Len(queries) : indexOf(queryEntities[queries[i]], e) # -1

\* ----------------------------------------------------------------- C14
\* The queries world.getQuery has created.
Registered == {queries[i] : i \in 1..Len(queries)}

\* Entity e is listed in query q, before / after the step.
Listed(q, e) == indexOf(queryEntities[q], e) # -1

ListedAfter(q, e) == indexOf(queryEntities'[q], e) # -1

\* The types of e other than T satisfy query q.
SatisfiesWithout(q, e, T) ==
  LET rest == {componentTypes[e][i] : i \in 1..Len(componentTypes[e])} \ {T}
  IN Components(q) \subseteq rest /\ NotComponents(q) \cap rest = {}

\* C14: exclusion precedence.  A live entity listed in Q that gains, by
\* attachComponent or addComponent, a type of Q.NotComponents has left
\* Q.entities when the call returns, and stays where it was in every query
\* that names the type neither in Components nor in NotComponents; and when
\* removeComponent takes that type off an entity whose other types satisfy
\* Q, the entity is listed in Q again when the call returns.
C14_ExclusionPrecedence ==
  [][\A e \in Live, T \in Types, q \in Registered :
       T \in NotComponents(q)
         => /\ (/\ Listed(q, e) /\ ~hasComponent(World, e, T)
                /\ AttachComponent(e, T) \/ AddComponent(e, T))
                 => /\ ~ListedAfter(q, e)
                    /\ \A o \in Registered :
                         T \notin Components(o) \cup NotComponents(o)
                           => queryEntities'[o] = queryEntities[o]
            /\ (/\ hasComponent(World, e, T) /\ SatisfiesWithout(q, e, T)
                /\ \E immediately \in BOOLEAN :
                     RemoveComponent(e, T, immediately))
                 => ListedAfter(q, e)
    ]_vars

\* ----------------------------------------------------------------- C15
\* How often x occurs in the sequence s.
Occurrences(s, x) == Cardinality({i \in 1..Len(s) : s[i] = x})

\* The places instance c of type T is in: entities' components maps,
\* entities' _componentsToRemove maps, and the free list of T's pool.
Places(T, c) ==
  Cardinality({e \in Ent : components[e][T] = c})
    + Cardinality({e \in Ent : _componentsToRemove[e][T] = c})
    + Occurrences(componentPools[T].freeList, c)

\* C15: exclusive ownership.  Every instance a pool has constructed is in
\* exactly one place: attached to one entity, pending removal on one entity,
\* or released to its pool (once).
C15_ExclusiveOwnership ==
  \A T \in Types : \A c \in 1..componentPools[T].count : Places(T, c) = 1

\* ----------------------------------------------------------------- C16
\* C16: live/pending disjointness.  For every entity a type is in at most
\* one of componentTypes and _componentTypesToRemove, and at most once in
\* each.
C16_LivePendingDisjoint ==
  \A e \in Ent, T \in Types :
    Occurrences(componentTypes[e], T)
      + Occurrences(_componentTypesToRemove[e], T) <= 1

\* ----------------------------------------------------------------- C17
\* C17: system-state counter accuracy.  _numSystemStateComponents of an
\* entity is the number of system-state types in its componentTypes, hence
\* never negative.
C17_CounterAccuracy ==
  \A e \in Ent :
    _numSystemStateComponents[e]
      = Cardinality({i \in 1..Len(componentTypes[e]) :
                       isSystemStateComponent(componentTypes[e][i])})

\* ----------------------------------------------------------------- C18
\* C18: bidirectional membership.  For every entity E and registered query
\* Q, Q is in E.queries exactly when E is in Q.entities, and neither list
\* names the other twice.
C18_BidirectionalMembership ==
  \A e \in Ent, q \in Registered :
    /\ Occurrences(entityQueries[e], q) = Occurrences(queryEntities[q], e)
    /\ Occurrences(queryEntities[q], e) <= 1

\* ----------------------------------------------------------------- C19
\* C19: entity component map consistency.  For every entity, componentTypes
\* names no type twice, and names T exactly when components[T.name] holds an
\* instance.
C19_ComponentMapConsistent ==
  \A e \in Ent, T \in Types :
    /\ Occurrences(componentTypes[e], T) <= 1
    /\ hasComponent(World, e, T) <=> components[e][T] # 0

\* ----------------------------------------------------------------- C20
\* C20: world entity index consistency.  world.entities names no Entity
\* object twice; every key of entitiesById maps to an entity whose _id is
\* that key; entitiesById and world.entities hold the same entities; and
\* every alive entity is in both.
C20_EntityIndexConsistent ==
  /\ \A e \in Ent : Occurrences(entities, e) <= 1
  /\ \A k \in DOMAIN entitiesById : _id[entitiesById[k]] = k
  /\ {entitiesById[k] : k \in DOMAIN entitiesById}
       = {entities[i] : i \in 1..Len(entities)}
  /\ \A e \in Constructed :
       _alive[e] => Indexed(entitiesById, e) /\ indexOf(entities, e) # -1

====
